---- MODULE Spec2Model ----
(***************************************************************************)
(* Model of the three batch drivers of the repository:                     *)
(*   src/agents/deepresearch.py  thread-pool driver with retry and a       *)
(*                               merged result file (specification Spec)   *)
(*   src/agents/browseruse.py    sequential driver, directory-presence     *)
(*   src/agents/owl.py           skip policy (specification SpecDir)       *)
(***************************************************************************)
EXTENDS Integers, Sequences, FiniteSets, TLC

\* ------------------------------------------------------------------------
\* Bounds of the model and program constants
\* ------------------------------------------------------------------------
MaxTasks == 2
MaxConc == 2
MaxRuns == 2
LowRetries == 2
MaxDirTasks == 3
MaxDirRuns == 2

StopAttempts == 10
DefaultRetries == 10

NoneV == "None"
AllIds == <<"a", "b", "c", "d">>

\* ------------------------------------------------------------------------
\* State
\* ------------------------------------------------------------------------
VARIABLES
  \* deepresearch.py: inputs of one invocation
  tasks_in,            \* ids of the task list (prompts.json), in file order
  max_concurrent,      \* --concurrency
  max_retries,         \* --retries
  \* deepresearch.py: persisted state
  file,                \* the result file: [state, recs]
  \* deepresearch.py: the main thread
  pc, run,
  task,                \* ResearchTask objects, by position in the task list
  completed_task_ids, pending_tasks,
  results,             \* process_tasks: results (task positions, 0 for None)
  merged,              \* main: results (list of dicts)
  \* deepresearch.py: ThreadPoolExecutor and tenacity
  queue, worker, future, early, fin, attempt_number,
  completed_count, failed_count, total_count,
  \* deepresearch.py: history (not program state)
  startFile, interrupted, prevCompleted,
  last_exc,            \* the exception a task's latest failed attempt raised
  \* browseruse.py / owl.py
  driver,              \* which of the two scripts runs
  d_tasks,             \* tasks: the queue of folder names, sorted
  dirs,                \* the directories that exist under the result root
  d_pc, d_i, d_run,
  \* browseruse.py / owl.py: history (not program state)
  d_reach, d_invoked,
  d_starts,            \* how often the agent was started for a task, all runs
  \* the task list file and its loading (all three scripts)
  data_file,           \* "ok", "missing" or "unparseable"
  l_driver,            \* the script that loads it
  raw_tasks,           \* raw_tasks / prompts: the entries json.load returns
  l_pc,
  l_sorted,            \* sorted(raw_tasks, key=...)
  l_tasks,             \* tasks: the queue the load leaves
  shards               \* owl.py: tasks after line 100, per WORKER_ID

drVars == <<tasks_in, max_concurrent, max_retries, file, pc, run, task,
            completed_task_ids, pending_tasks, results, merged,
            queue, worker, future, early, fin, attempt_number,
            completed_count, failed_count, total_count,
            startFile, interrupted, prevCompleted, last_exc>>
dirVars == <<driver, d_tasks, dirs, d_pc, d_i, d_run, d_reach, d_invoked,
             d_starts>>
loadVars == <<data_file, l_driver, raw_tasks, l_pc, l_sorted, l_tasks,
              shards>>
vars == <<drVars, dirVars, loadVars>>

\* ------------------------------------------------------------------------
\* deepresearch.py: data
\* ------------------------------------------------------------------------
PromptOf(id) == <<"instruct", id>>

\* ResearchTask(id=..., prompt=...) with the dataclass defaults
NewTask(id) ==
  [id |-> id, prompt |-> PromptOf(id), status |-> "pending", result |-> NoneV,
   error |-> NoneV, start_time |-> NoneV, end_time |-> NoneV, retry_count |-> 0]

\* end_time - start_time if start_time and end_time else None
Duration(st, et) == IF st # NoneV /\ et # NoneV THEN "dur" ELSE NoneV

\* the dict main builds from a ResearchTask
TaskDict(t) ==
  [id |-> t.id, prompt |-> t.prompt, status |-> t.status, result |-> t.result,
   error |-> t.error, start_time |-> t.start_time, end_time |-> t.end_time,
   duration |-> Duration(t.start_time, t.end_time),
   retry_count |-> t.retry_count]

\* the object save_final_results writes for one dict of results
SavedRecord(d) ==
  [id |-> d.id, prompt |-> d.prompt, status |-> d.status, result |-> d.result,
   error |-> d.error, start_time |-> d.start_time, end_time |-> d.end_time,
   duration |-> Duration(d.start_time, d.end_time)]

Range(s) == {s[k] : k \in DOMAIN s}

\* the task lists an invocation may be given: distinct ids, or one id twice
TaskLists ==
  {SubSeq(AllIds, 1, n) : n \in 1..MaxTasks} \cup {<<"a", "a">>}

Workers == 1..MaxConc

AbsentFile == [state |-> "absent", recs |-> <<>>]
IdleWorker == [cur |-> 0, phase |-> "idle", reg |-> 0, wait |-> 0]

\* ------------------------------------------------------------------------
\* deepresearch.py: main, up to the decision to process
\* ------------------------------------------------------------------------
\* create_tasks_from_prompts: one ResearchTask per entry, in file order
CreateTasks(ids) == [i \in 1..Len(ids) |-> NewTask(ids[i])]

\* faulty variant of CompletedIds: a failed record counts as done too
CompletedIdsAnyStatus(f) ==
  IF f.state = "ok" THEN {f.recs[k].id : k \in DOMAIN f.recs} ELSE {}

\* main, lines 262-272: ids with status completed in the file read at startup;
\* a missing file is not read, an unreadable one is logged and ignored
CompletedIds(f) ==
  IF f.state = "ok"
  THEN {f.recs[k].id : k \in {j \in DOMAIN f.recs : f.recs[j].status = "completed"}}
  ELSE {}

\* main, line 275: the tasks whose id is not in completed_task_ids
PendingTasks(ids, done) ==
  SelectSeq([i \in 1..Len(ids) |-> i], LAMBDA i : ids[i] \notin done)

MemoryReset ==
  /\ results' = <<>>
  /\ merged' = <<>>
  /\ queue' = <<>>
  /\ worker' = [w \in Workers |-> IdleWorker]
  /\ early' = {}
  /\ fin' = <<>>
  /\ completed_count' = 0
  /\ failed_count' = 0

\* the invocation's arguments and the process memory before main is entered,
\* the task list file holding one of these lists
InitMemoryOf(lists) ==
  /\ tasks_in \in lists
  /\ max_concurrent \in 1..MaxConc
  /\ max_retries \in {LowRetries, DefaultRetries}
  /\ pc = "init"
  /\ run = 0
  /\ task = CreateTasks(tasks_in)
  /\ completed_task_ids = {}
  /\ pending_tasks = <<>>
  /\ results = <<>>
  /\ merged = <<>>
  /\ queue = <<>>
  /\ worker = [w \in Workers |-> IdleWorker]
  /\ future = [i \in 1..Len(tasks_in) |-> "none"]
  /\ early = {}
  /\ fin = <<>>
  /\ attempt_number = [i \in 1..Len(tasks_in) |-> 0]
  /\ completed_count = 0
  /\ failed_count = 0
  /\ total_count = 0
  /\ startFile = AbsentFile
  /\ interrupted = FALSE
  /\ prevCompleted = {}
  /\ last_exc = [i \in 1..Len(tasks_in) |-> NoneV]

InitMemory == InitMemoryOf(TaskLists)

\* a first invocation: no result file yet
InitDR == InitMemory /\ file = AbsentFile

\* the exceptions the remote call raises, named by their constructor calls
PlainError == "Exception('msg')"
TimeoutError == "APITimeoutError('late')"

\* faulty variant of ErrorText: the message alone, str(e)
ErrorTextMessage(e) ==
  CASE e = PlainError -> "msg"
    [] e = TimeoutError -> "late"

\* line 126: f"{type(e).__name__}: {str(e)}"
ErrorText(e) ==
  CASE e = PlainError -> "Exception: msg"
    [] e = TimeoutError -> "APITimeoutError: late"

\* the ResearchTask of a task whose last attempt raised (lines 123-129)
FailedTask(id) ==
  [NewTask(id) EXCEPT !.status = "failed", !.error = ErrorText(PlainError),
                      !.start_time = "t", !.end_time = "t"]

\* a result file given to the invocation whose records have the nine fields
\* main and save_temp_results build (lines 172-182, 289-299), every task failed
GivenFile(ids) ==
  [state |-> "ok", recs |-> [k \in 1..Len(ids) |-> TaskDict(FailedTask(ids[k]))]]

\* an invocation that finds such a file at the output path
InitGiven == InitMemory /\ file = GivenFile(tasks_in)

\* the states the task list file can be in
DataFileStates == {"ok", "missing", "unparseable"}

\* faulty variant of Readable: a failed read is taken for an empty success
ReadableAlways(df) == TRUE

\* open and json.load of the task list succeed; on a missing file open raises
\* FileNotFoundError, on a file that is no JSON json.load raises
\* JSONDecodeError (deepresearch.py 210-213, browseruse.py 24-26, owl.py 84-86)
Readable(df) == df = "ok"

\* One invocation of main starts: the researcher is constructed, the task list
\* loaded, the result file read and the pending tasks selected (lines 249-281,
\* 313-315). When load_prompts raises (line 258) the except branch logs and
\* raises again (326-328): no task object exists, nothing was read or written.
StartRun ==
  /\ pc \in {"init", "done", "raised", "crashed"}
  /\ run < MaxRuns
  /\ run' = run + 1
  /\ MemoryReset
  /\ IF Readable(data_file)
     THEN /\ task' = CreateTasks(tasks_in)
          /\ completed_task_ids' = CompletedIds(file)
          /\ pending_tasks' = PendingTasks(tasks_in, CompletedIds(file))
          /\ total_count' = Len(pending_tasks')
          /\ future' = [i \in 1..Len(tasks_in) |-> "none"]
          /\ attempt_number' = [i \in 1..Len(tasks_in) |-> 0]
          /\ last_exc' = [i \in 1..Len(tasks_in) |-> NoneV]
          /\ pc' = IF pending_tasks' # <<>> THEN "submit" ELSE "save_open"
     ELSE /\ task' = <<>>
          /\ completed_task_ids' = {}
          /\ pending_tasks' = <<>>
          /\ total_count' = 0
          /\ future' = <<>>
          /\ attempt_number' = <<>>
          /\ last_exc' = <<>>
          /\ pc' = "raised"
  /\ startFile' = file
  /\ interrupted' = (pc = "crashed")
  /\ prevCompleted' = IF pc = "crashed" THEN prevCompleted ELSE {}
  /\ UNCHANGED <<tasks_in, max_concurrent, max_retries, file, dirVars,
                 loadVars>>

\* ------------------------------------------------------------------------
\* deepresearch.py: process_tasks, the thread pool and the retried call
\* ------------------------------------------------------------------------
\* The position in the task list of the next task executor.submit is given:
\* the dict comprehension of line 149 walks pending_tasks in order.
NextToSubmit ==
  LET left == SelectSeq(pending_tasks, LAMBDA i : future[i] = "none")
  IN  IF left = <<>> THEN 0 ELSE Head(left)

\* A future has its outcome: as_completed yields the futures that were done
\* when it was called in any order, and the later ones as they finish.
Finish(i) ==
  IF pc = "submit"
  THEN early' = early \cup {i} /\ fin' = fin
  ELSE fin' = Append(fin, i) /\ early' = early

\* line 149: executor.submit(self._execute_research, task), one task a step;
\* after the last one the main thread enters the as_completed loop
Submit ==
  /\ pc = "submit"
  /\ NextToSubmit # 0
  /\ queue' = Append(queue, NextToSubmit)
  /\ future' = [future EXCEPT ![NextToSubmit] = "queued"]
  /\ pc' = IF \A k \in Range(pending_tasks) : future'[k] # "none"
           THEN "collect" ELSE "submit"
  /\ UNCHANGED <<tasks_in, max_concurrent, max_retries, file, run, task,
                 completed_task_ids, pending_tasks, results, merged, worker,
                 early, fin, attempt_number, completed_count, failed_count,
                 total_count, startFile, interrupted, prevCompleted,
                 dirVars,
                 loadVars, last_exc>>

\* the tasks whose _execute_research has been entered in this run
Executed ==
  {i \in DOMAIN future : future[i] \notin {"none", "queued"}}

\* faulty variant of PoolThreads: the pool ignores max_workers
PoolThreadsUnbounded == Workers

\* ThreadPoolExecutor(max_workers=self.max_concurrent): the threads that may
\* take work from the queue
PoolThreads == 1..max_concurrent

\* faulty variant of ThreadFree: a thread that waits between two attempts
\* takes other work meanwhile
ThreadFreeInBackoff(w) == worker[w].phase \in {"idle", "backoff"}

\* A pool thread is free for the next work item when the call it ran has
\* ended: the retry decorator of lines 85-86 wraps the submitted function, so
\* all attempts and the waits between them are inside that one call.
ThreadFree(w) == worker[w].phase = "idle"

\* A pool thread takes the oldest queued work item and enters
\* _execute_research for the first attempt (lines 99-100).  The threads are
\* interchangeable: of the idle ones the lowest-numbered takes the item.
Take(w) ==
  /\ w \in PoolThreads
  /\ ThreadFree(w)
  /\ \A v \in PoolThreads : v < w => ~ThreadFree(v)
  /\ queue # <<>>
  /\ LET i == Head(queue) IN
       /\ queue' = Tail(queue)
       /\ worker' = [worker EXCEPT ![w] = [cur |-> i, phase |-> "calling", reg |-> 0,
                                          wait |-> 0]]
       /\ future' = [future EXCEPT ![i] = "running"]
       /\ attempt_number' = [attempt_number EXCEPT ![i] = 1]
       /\ task' = [task EXCEPT ![i].start_time = "t", ![i].status = "processing"]
  /\ UNCHANGED <<tasks_in, max_concurrent, max_retries, file, pc, run,
                 completed_task_ids, pending_tasks, results, merged,
                 early, fin, completed_count, failed_count,
                 total_count, startFile, interrupted, prevCompleted, dirVars,
                 loadVars, last_exc>>

\* lines 104-121: the remote call returns
CallReturns(w) ==
  /\ worker[w].phase = "calling"
  /\ LET i == worker[w].cur IN
       /\ task' = [task EXCEPT ![i].result = "out", ![i].status = "completed",
                               ![i].end_time = "t"]
       /\ completed_count' = completed_count + 1
       /\ future' = [future EXCEPT ![i] = "returned"]
       /\ attempt_number' = [attempt_number EXCEPT ![i] = 0]
       /\ Finish(i)
  /\ worker' = [worker EXCEPT ![w] = IdleWorker]
  /\ UNCHANGED <<tasks_in, max_concurrent, max_retries, file, pc, run,
                 completed_task_ids, pending_tasks, results, merged, queue,
                 failed_count, total_count, startFile, interrupted, prevCompleted, dirVars,
                 loadVars, last_exc>>

\* line 85: wait_exponential(multiplier=1, min=1, max=15)
WaitMultiplier == 1
WaitMin == 1
WaitMax == 15

RECURSIVE Pow2(_)
Pow2(n) == IF n = 0 THEN 1 ELSE 2 * Pow2(n - 1)

Min2(a, b) == IF a <= b THEN a ELSE b
Max2(a, b) == IF a >= b THEN a ELSE b

\* faulty variant of WaitExponential: the exponent is the number of the failed
\* attempt, so that the first wait is two seconds
WaitExponentialFromTwo(n) ==
  Max2(Max2(0, WaitMin), Min2(WaitMultiplier * Pow2(n), WaitMax))

\* tenacity's wait_exponential with the arguments of line 85, after failed
\* attempt n: max(max(0, min), min(multiplier * 2 ** (n - 1), max)), seconds
WaitExponential(n) ==
  Max2(Max2(0, WaitMin), Min2(WaitMultiplier * Pow2(n - 1), WaitMax))

\* faulty variant of StopAfterAttempt: the decorator has no stop condition
StopAfterAttemptNever(n) == FALSE

\* line 85: stop=stop_after_attempt(10)
StopAfterAttempt(n) == n >= StopAttempts

\* faulty variant of RetryErrorCallback: the callback is called as a bound
\* method, logs, and its None becomes the value of the call
RetryErrorCallbackReturnsNone == "returned_none"

\* line 85: retry_error_callback=_retry_error_callback names the plain
\* two-parameter function of the class body; tenacity calls it with the retry
\* state alone, so the call raises TypeError out of the wrapped function.
RetryErrorCallback == "raised"

\* faulty variant of ExceptStatus: the except branch leaves the status as
\* the attempt set it
ExceptStatusUnset == "processing"

\* line 125: task.status = "failed"
ExceptStatus == "failed"

\* lines 123-129 and the retry decorator: the remote call raises
CallRaisesWith(w, e) ==
  /\ worker[w].phase = "calling"
  /\ LET i == worker[w].cur IN
       /\ task' = [task EXCEPT ![i].status = ExceptStatus, ![i].error = ErrorText(e),
                               ![i].end_time = "t"]
       /\ last_exc' = [last_exc EXCEPT ![i] = e]
       /\ failed_count' = failed_count + 1
       /\ IF StopAfterAttempt(attempt_number[i])
          THEN /\ future' = [future EXCEPT ![i] = RetryErrorCallback]
               /\ Finish(i)
               /\ worker' = [worker EXCEPT ![w] = IdleWorker]
          ELSE /\ worker' = [worker EXCEPT
                            ![w].phase = "backoff",
                            ![w].wait = WaitExponential(attempt_number[i])]
               /\ UNCHANGED <<future, early, fin>>
  /\ UNCHANGED <<tasks_in, max_concurrent, max_retries, file, pc, run,
                 completed_task_ids, pending_tasks, results, merged, queue,
                 attempt_number, completed_count, total_count, startFile, interrupted, prevCompleted, dirVars,
                 loadVars>>

\* the remote call raises the exception of the plain failure
CallRaises(w) == CallRaisesWith(w, PlainError)

\* the remote call raises another exception, a timeout
CallRaisesTimeout(w) == CallRaisesWith(w, TimeoutError)

\* the backoff wait is over: tenacity calls _execute_research again
\* (lines 99-100)
Retry(w) ==
  /\ worker[w].phase = "backoff"
  /\ LET i == worker[w].cur IN
       /\ attempt_number' = [attempt_number EXCEPT ![i] = @ + 1]
       /\ task' = [task EXCEPT ![i].start_time = "t", ![i].status = "processing"]
  /\ worker' = [worker EXCEPT ![w].phase = "calling", ![w].wait = 0]
  /\ UNCHANGED <<tasks_in, max_concurrent, max_retries, file, pc, run,
                 completed_task_ids, pending_tasks, results, merged, queue,
                 future, early, fin, completed_count, failed_count,
                 total_count, startFile, interrupted, prevCompleted,
                 dirVars,
                 loadVars, last_exc>>

\* lines 152-158: what the loop appends for a finished future: the returned
\* value (the task, or None), or the task itself when future.result() raises
Collected(i) ==
  CASE future[i] = "returned" -> i
    [] future[i] = "returned_none" -> 0
    [] future[i] = "raised" -> i

\* faulty variant of LoopEnds: the loop is left at the first finished future
\* and nothing waits for the other pool threads
LoopEndsAtFirst(res) == Len(res) >= 1

\* lines 148 and 151: as_completed is exhausted when every submitted future
\* has been yielded, and leaving the with block joins the pool threads
LoopEnds(res) == Len(res) = Len(pending_tasks)

\* lines 151-163: one iteration of the as_completed loop; after the last one
\* the executor is shut down and process_tasks returns
Collect ==
  /\ pc = "collect"
  /\ \E i \in (IF early # {} THEN early
               ELSE IF fin # <<>> THEN {Head(fin)} ELSE {}) :
       /\ results' = Append(results, Collected(i))
       /\ early' = early \ {i}
       /\ fin' = IF early # {} THEN fin ELSE Tail(fin)
  /\ pc' = IF LoopEnds(results') THEN "merge" ELSE "collect"
  /\ UNCHANGED <<tasks_in, max_concurrent, max_retries, file, run, task,
                 completed_task_ids, pending_tasks, merged, queue, worker,
                 future, attempt_number, completed_count, failed_count,
                 total_count, startFile, interrupted, prevCompleted,
                 dirVars,
                 loadVars, last_exc>>

\* ------------------------------------------------------------------------
\* deepresearch.py: main, merge and save
\* ------------------------------------------------------------------------
\* faulty variant of NewDicts: the new results are added last-collected first
NewDictsReversed(res) ==
  [k \in 1..Len(res) |-> TaskDict(task[res[Len(res) + 1 - k]])]

\* lines 289-299 and 302-312: the dicts of the new results, None entries
\* left out by "if task"
NewDicts(res) ==
  LET kept == SelectSeq(res, LAMBDA i : i # 0)
  IN  [k \in 1..Len(kept) |-> TaskDict(task[kept[k]])]

\* faulty variant of KeptRecords: nothing is removed before the new results
\* are added
KeptRecordsAll(recs) == recs

\* line 288: the previous records whose id is not the id of a pending task
KeptRecords(recs) ==
  SelectSeq(recs, LAMBDA r :
    r.id \notin {tasks_in[i] : i \in Range(pending_tasks)})

\* lines 283-312: the merge of the new results with the file, read again;
\* json.load raises on a file that cannot be parsed
Merge ==
  /\ pc = "merge"
  /\ CASE file.state = "absent" ->
            merged' = NewDicts(results) /\ pc' = "save_open"
       [] file.state = "ok" ->
            merged' = KeptRecords(file.recs) \o NewDicts(results)
            /\ pc' = "save_open"
       [] file.state = "corrupt" ->
            merged' = merged /\ pc' = "raised"
  /\ UNCHANGED <<tasks_in, max_concurrent, max_retries, file, run, task,
                 completed_task_ids, pending_tasks, results, queue, worker,
                 future, early, fin, attempt_number, completed_count,
                 failed_count, total_count, startFile, interrupted,
                 prevCompleted, dirVars,
                 loadVars, last_exc>>

\* save_final_results, lines 191-203: the list written to the file
OutputData(res) == [k \in 1..Len(res) |-> SavedRecord(res[k])]

\* save_final_results, line 205: open(save_path, 'w') truncates the file
SaveOpen ==
  /\ pc = "save_open"
  /\ file' = [state |-> "corrupt", recs |-> <<>>]
  /\ pc' = "save_write"
  /\ UNCHANGED <<tasks_in, max_concurrent, max_retries, run, task,
                 completed_task_ids, pending_tasks, results, merged, queue,
                 worker, future, early, fin, attempt_number, completed_count,
                 failed_count, total_count, startFile, interrupted,
                 prevCompleted, dirVars,
                 loadVars, last_exc>>

\* save_final_results, line 206: the JSON text is written and the file closed
SaveWrite ==
  /\ pc = "save_write"
  /\ file' = [state |-> "ok", recs |-> OutputData(merged)]
  /\ pc' = "stats"
  /\ UNCHANGED <<tasks_in, max_concurrent, max_retries, run, task,
                 completed_task_ids, pending_tasks, results, merged, queue,
                 worker, future, early, fin, attempt_number, completed_count,
                 failed_count, total_count, startFile, interrupted,
                 prevCompleted, dirVars,
                 loadVars, last_exc>>

\* lines 321-324: the statistics read task.status of every entry of results;
\* the entries are dicts, so the first one raises AttributeError, which main
\* logs and re-raises (lines 326-328)
Stats ==
  /\ pc = "stats"
  /\ pc' = IF merged # <<>> THEN "raised" ELSE "done"
  /\ UNCHANGED <<tasks_in, max_concurrent, max_retries, file, run, task,
                 completed_task_ids, pending_tasks, results, merged, queue,
                 worker, future, early, fin, attempt_number, completed_count,
                 failed_count, total_count, startFile, interrupted,
                 prevCompleted, dirVars,
                 loadVars, last_exc>>

\* The process is interrupted (killed, power loss) at any point of a run:
\* everything in memory is lost, the file stays as it is.
Crash ==
  /\ pc \in {"submit", "collect", "merge", "save_open", "save_write", "stats"}
  /\ pc' = "crashed"
  /\ prevCompleted' =
       {task[i].id : i \in {j \in DOMAIN task : task[j].status = "completed"}}
  /\ task' = CreateTasks(tasks_in)
  /\ MemoryReset
  /\ future' = [i \in 1..Len(tasks_in) |-> "none"]
  /\ attempt_number' = [i \in 1..Len(tasks_in) |-> 0]
  /\ last_exc' = [i \in 1..Len(tasks_in) |-> NoneV]
  /\ UNCHANGED <<tasks_in, max_concurrent, max_retries, file, run,
                 completed_task_ids, pending_tasks, total_count, startFile, interrupted, dirVars,
                 loadVars>>

\* browseruse.py / owl.py stay unstarted in the deep-research specification
\* nothing is being loaded step by step; the task list file is given apart
LoadRest ==
  /\ l_driver = "browseruse"
  /\ raw_tasks = <<>>
  /\ l_pc = "idle"
  /\ l_sorted = <<>>
  /\ l_tasks = <<>>
  /\ shards = <<>>

\* the task list file is there and holds a JSON list
LoadIdle == data_file = "ok" /\ LoadRest

\* neither browseruse.py nor owl.py is run
DirIdle ==
  /\ driver = "browseruse"
  /\ d_tasks = <<>>
  /\ dirs = {}
  /\ d_pc = "idle"
  /\ d_i = 0
  /\ d_run = 0
  /\ d_reach = <<>>
  /\ d_invoked = {}
  /\ d_starts = <<>>

Init == InitDR /\ DirIdle /\ LoadIdle

Next ==
  \/ StartRun
  \/ Submit
  \/ \E w \in Workers : Take(w)
  \/ \E w \in Workers : CallReturns(w)
  \/ \E w \in Workers : CallRaises(w)
  \/ \E w \in Workers : Retry(w)
  \/ Collect
  \/ Merge
  \/ SaveOpen
  \/ SaveWrite
  \/ Stats

\* one invocation on a fresh result file
NextOneRun ==
  \/ run = 0 /\ StartRun
  \/ Submit
  \/ \E w \in Workers : Take(w)
  \/ \E w \in Workers : CallReturns(w)
  \/ \E w \in Workers : CallRaises(w)
  \/ \E w \in Workers : Retry(w)
  \/ Collect
  \/ Merge
  \/ SaveOpen
  \/ SaveWrite
  \/ Stats

SpecOneRun == Init /\ [][NextOneRun]_vars

\* What the pool and the main thread do without being asked: the main thread
\* goes on submitting (line 149) and collecting (lines 151-158), a free pool
\* thread takes queued work, the wait between two attempts ends (it is at
\* most 15 s, line 85), and every remote call returns or raises.
Fairness ==
  /\ WF_vars(Submit)
  /\ WF_vars(Collect)
  /\ \A w \in Workers : WF_vars(Take(w))
  /\ \A w \in Workers : WF_vars(CallReturns(w) \/ CallRaises(w))
  /\ \A w \in Workers : WF_vars(Retry(w))

\* one invocation whose threads keep running
SpecFair == Init /\ [][NextOneRun]_vars /\ Fairness

\* deepresearch.py alone, a result file with nine-field records in place
InitGivenRun == InitGiven /\ DirIdle /\ LoadIdle

\* one invocation that finds a result file with nine-field records
SpecGiven == InitGivenRun /\ [][NextOneRun]_vars

\* a first invocation on a task list file that may also list b before a
InitFileOrder ==
  /\ InitMemoryOf(TaskLists \cup {<<"b", "a">>})
  /\ file = AbsentFile
  /\ DirIdle
  /\ LoadIdle

\* one invocation on a task list in any order
SpecFileOrder == InitFileOrder /\ [][NextOneRun]_vars

\* lines 114-118, in steps: the call has returned, the record is set, and
\* self.completed_count += 1 has read the counter; no lock guards the counters
ReturnsRead(w) ==
  /\ worker[w].phase = "calling"
  /\ LET i == worker[w].cur IN
       task' = [task EXCEPT ![i].result = "out", ![i].status = "completed",
                            ![i].end_time = "t"]
  /\ worker' = [worker EXCEPT ![w].phase = "store_completed",
                              ![w].reg = completed_count]
  /\ UNCHANGED <<tasks_in, max_concurrent, max_retries, file, pc, run,
                 completed_task_ids, pending_tasks, results, merged, queue,
                 future, early, fin, attempt_number, completed_count,
                 failed_count, total_count, startFile, interrupted,
                 prevCompleted, last_exc, dirVars, loadVars>>

\* line 118, the store of the sum, and the return of the task (121)
ReturnsStore(w) ==
  /\ worker[w].phase = "store_completed"
  /\ completed_count' = worker[w].reg + 1
  /\ LET i == worker[w].cur IN
       /\ future' = [future EXCEPT ![i] = "returned"]
       /\ attempt_number' = [attempt_number EXCEPT ![i] = 0]
       /\ Finish(i)
  /\ worker' = [worker EXCEPT ![w] = IdleWorker]
  /\ UNCHANGED <<tasks_in, max_concurrent, max_retries, file, pc, run, task,
                 completed_task_ids, pending_tasks, results, merged, queue,
                 failed_count, total_count, startFile, interrupted,
                 prevCompleted, last_exc, dirVars, loadVars>>

\* lines 123-128, in steps: the call has raised, the record is set, and
\* self.failed_count += 1 has read the counter
RaisesRead(w) ==
  /\ worker[w].phase = "calling"
  /\ LET i == worker[w].cur IN
       /\ task' = [task EXCEPT ![i].status = "failed",
                               ![i].error = ErrorText(PlainError),
                               ![i].end_time = "t"]
       /\ last_exc' = [last_exc EXCEPT ![i] = PlainError]
  /\ worker' = [worker EXCEPT ![w].phase = "store_failed",
                              ![w].reg = failed_count]
  /\ UNCHANGED <<tasks_in, max_concurrent, max_retries, file, pc, run,
                 completed_task_ids, pending_tasks, results, merged, queue,
                 future, early, fin, attempt_number, completed_count,
                 failed_count, total_count, startFile, interrupted,
                 prevCompleted, dirVars, loadVars>>

\* line 128, the store of the sum, and the raise (129) into the retry
\* decorator
RaisesStore(w) ==
  /\ worker[w].phase = "store_failed"
  /\ failed_count' = worker[w].reg + 1
  /\ LET i == worker[w].cur IN
       IF StopAfterAttempt(attempt_number[i])
       THEN /\ future' = [future EXCEPT ![i] = RetryErrorCallback]
            /\ Finish(i)
            /\ worker' = [worker EXCEPT ![w] = IdleWorker]
       ELSE /\ worker' = [worker EXCEPT
                         ![w].phase = "backoff", ![w].reg = 0,
                         ![w].wait = WaitExponential(attempt_number[i])]
            /\ UNCHANGED <<future, early, fin>>
  /\ UNCHANGED <<tasks_in, max_concurrent, max_retries, file, pc, run, task,
                 completed_task_ids, pending_tasks, results, merged, queue,
                 attempt_number, completed_count, total_count, startFile,
                 interrupted, prevCompleted, last_exc, dirVars, loadVars>>

\* one invocation, the two counter updates taken step by step
NextSteps ==
  \/ run = 0 /\ StartRun
  \/ Submit
  \/ \E w \in Workers : Take(w)
  \/ \E w \in Workers : ReturnsRead(w)
  \/ \E w \in Workers : ReturnsStore(w)
  \/ \E w \in Workers : RaisesRead(w)
  \/ \E w \in Workers : RaisesStore(w)
  \/ \E w \in Workers : Retry(w)
  \/ Collect
  \/ Merge
  \/ SaveOpen
  \/ SaveWrite
  \/ Stats

SpecSteps == Init /\ [][NextSteps]_vars

NextErrors ==
  \/ NextOneRun
  \/ \E w \in Workers : CallRaisesTimeout(w)

\* one invocation whose remote calls fail in two ways
SpecErrors == Init /\ [][NextErrors]_vars

\* every invocation runs to its end
Spec == Init /\ [][Next]_vars

NextCrash ==
  \/ Next
  \/ Crash

\* invocations may be interrupted
SpecCrash == Init /\ [][NextCrash]_vars

\* --concurrency 1: the pool has one thread
InitSequential == Init /\ max_concurrent = 1

\* invocations on a one-thread pool, which may be interrupted
SpecSequential == InitSequential /\ [][NextCrash]_vars


\* ------------------------------------------------------------------------
\* browseruse.py / owl.py: the sequential drivers
\* ------------------------------------------------------------------------
\* A folder name is a path relative to the result root ./result/<model> or
\* ./workforce-result/<MODEL_NAME>, held as its sequence of components.
DirIds == << <<"a">>, <<"a", "workplace">>, <<"b">>, <<"c">> >>

\* the queues a run may be given: the folder names picked by S, in sorted order
SubQueue(S) ==
  LET idx == SelectSeq([k \in 1..Len(DirIds) |-> k], LAMBDA k : k \in S)
  IN  [k \in 1..Len(idx) |-> DirIds[idx[k]]]

DirTaskLists ==
  {SubQueue(S) : S \in {T \in SUBSET (1..Len(DirIds)) : Cardinality(T) <= MaxDirTasks}}

\* save_dir = f"./result/{model}/{folder_name}"
SaveDir(folder) == folder

\* file_system_path = f"./result/{model}/{folder_name}/workplace"
FileSystemPath(folder) == Append(folder, "workplace")

\* faulty variant of Exists: the test looks at the workplace below the path
ExistsWorkplace(ds, path) == Append(path, "workplace") \in ds

\* os.path.exists(path)
Exists(ds, path) == path \in ds

\* faulty variant of Makedirs: the directory is not made
MakedirsNothing(ds, path) == ds

\* os.makedirs(path, exist_ok=True): the directory and its missing parents
Makedirs(ds, path) == ds \cup {SubSeq(path, 1, n) : n \in 1..Len(path)}

RECURSIVE MakedirsAll(_, _)
MakedirsAll(ds, paths) ==
  IF paths = {} THEN ds
  ELSE LET p == CHOOSE q \in paths : TRUE
       IN  MakedirsAll(Makedirs(ds, p), paths \ {p})

\* deepresearch.py stays unstarted in the specification of these drivers
DRIdle ==
  /\ tasks_in = <<"a">>
  /\ max_concurrent = 1
  /\ max_retries = DefaultRetries
  /\ file = AbsentFile
  /\ pc = "idle"
  /\ run = 0
  /\ task = CreateTasks(tasks_in)
  /\ completed_task_ids = {}
  /\ pending_tasks = <<>>
  /\ results = <<>>
  /\ merged = <<>>
  /\ queue = <<>>
  /\ worker = [w \in Workers |-> IdleWorker]
  /\ future = [i \in 1..Len(tasks_in) |-> "none"]
  /\ early = {}
  /\ fin = <<>>
  /\ attempt_number = [i \in 1..Len(tasks_in) |-> 0]
  /\ completed_count = 0
  /\ failed_count = 0
  /\ total_count = 0
  /\ startFile = AbsentFile
  /\ interrupted = FALSE
  /\ prevCompleted = {}
  /\ last_exc = [i \in 1..Len(tasks_in) |-> NoneV]

\* The queue as the module-level loop leaves it, and any directories left in
\* the result root by earlier work.
InitDirQueue ==
  /\ DRIdle
  /\ driver \in {"browseruse", "owl"}
  /\ d_tasks \in DirTaskLists
  /\ dirs \in {MakedirsAll({}, S) : S \in SUBSET {SaveDir(d_tasks[k]) : k \in DOMAIN d_tasks}}
  /\ d_pc = "init"
  /\ d_i = 0
  /\ d_run = 0
  /\ d_reach = [k \in DOMAIN d_tasks |-> "unreached"]
  /\ d_invoked = {}
  /\ d_starts = [k \in DOMAIN d_tasks |-> 0]

\* the task list file was there and parsed
InitDir == InitDirQueue /\ LoadIdle

\* the task list file may also be missing or hold no JSON
InitDirAny == InitDirQueue /\ LoadRest /\ data_file \in DataFileStates

\* history: what the result root holds for task i when the loop reaches it
Seen(i) == IF SaveDir(d_tasks[i]) \in dirs THEN "present" ELSE "absent"

\* the for loop moves on to the next task, or main returns after the last
LoopNext ==
  /\ d_i' = d_i + 1
  /\ d_pc' = IF d_i + 1 > Len(d_tasks) THEN "done" ELSE "loop"

\* The script is started: the module-level code reads the task list and
\* raises RuntimeError when that fails (browseruse.py 24-28, owl.py 84-88), so
\* main is never entered; otherwise main is entered (browseruse.py 41-49,
\* owl.py 990-995).
DStart ==
  /\ d_pc \in {"init", "done", "raised", "crashed", "aborted"}
  /\ d_run < MaxDirRuns
  /\ d_run' = d_run + 1
  /\ d_reach' = [k \in DOMAIN d_tasks |-> "unreached"]
  /\ d_invoked' = {}
  /\ IF ~Readable(data_file)
     THEN d_pc' = "aborted" /\ d_i' = 0
     ELSE IF d_tasks = <<>>
          THEN d_pc' = "done" /\ d_i' = 0
          ELSE d_pc' = "loop" /\ d_i' = 1
  /\ UNCHANGED <<driver, d_tasks, dirs, drVars,
                 loadVars, d_starts>>

\* browseruse.py 50-54, owl.py 996-1000: the directory exists, continue
LoopSkip ==
  /\ d_pc = "loop"
  /\ Exists(dirs, SaveDir(d_tasks[d_i]))
  /\ d_reach' = [d_reach EXCEPT ![d_i] = Seen(d_i)]
  /\ LoopNext
  /\ UNCHANGED <<driver, d_tasks, dirs, d_run, d_invoked, drVars,
                 loadVars, d_starts>>

\* browseruse.py 52-56, owl.py 998-1004: the directory is missing and is made
LoopMkdir ==
  /\ d_pc = "loop"
  /\ ~Exists(dirs, SaveDir(d_tasks[d_i]))
  /\ d_reach' = [d_reach EXCEPT ![d_i] = Seen(d_i)]
  /\ dirs' = Makedirs(dirs, SaveDir(d_tasks[d_i]))
  /\ d_pc' = "agent"
  /\ UNCHANGED <<driver, d_tasks, d_i, d_run, d_invoked, drVars,
                 loadVars, d_starts>>

\* browseruse.py 61-67: the Agent is built and run; whether the library makes
\* file_system_path is its own business.  owl.py 1007, 795-797: execute_agent
\* makes working_dir first.
AgentStart ==
  /\ d_pc = "agent"
  /\ d_invoked' = d_invoked \cup {d_i}
  /\ d_starts' = [d_starts EXCEPT ![d_i] = @ + 1]
  /\ \E made \in BOOLEAN :
       /\ driver = "owl" => made
       /\ dirs' = IF made THEN Makedirs(dirs, FileSystemPath(d_tasks[d_i]))
                  ELSE dirs
  /\ d_pc' = "running"
  /\ UNCHANGED <<driver, d_tasks, d_i, d_run, d_reach, drVars,
                 loadVars>>

\* the agent run ends normally
AgentReturns ==
  /\ d_pc = "running"
  /\ LoopNext
  /\ UNCHANGED <<driver, d_tasks, dirs, d_run, d_reach, d_invoked, drVars,
                 loadVars, d_starts>>

\* the agent run raises: browseruse.py has no handler around it, owl.py only
\* a finally clause (1005-1009), so the exception leaves main
AgentRaises ==
  /\ d_pc = "running"
  /\ d_pc' = "raised"
  /\ UNCHANGED <<driver, d_tasks, dirs, d_i, d_run, d_reach, d_invoked, drVars,
                 loadVars, d_starts>>

\* the process is interrupted at any point of a run
DCrash ==
  /\ d_pc \in {"loop", "agent", "running"}
  /\ d_pc' = "crashed"
  /\ UNCHANGED <<driver, d_tasks, dirs, d_i, d_run, d_reach, d_invoked, drVars,
                 loadVars, d_starts>>

NextDir ==
  \/ DStart
  \/ LoopSkip
  \/ LoopMkdir
  \/ AgentStart
  \/ AgentReturns
  \/ AgentRaises

SpecDir == InitDir /\ [][NextDir]_vars

\* the result root holds nothing when the first run starts
InitDirFresh == InitDir /\ dirs = {}

\* runs of a sequential driver that begin on an empty result root
SpecDirFresh == InitDirFresh /\ [][NextDir]_vars

NextDirCrash ==
  \/ NextDir
  \/ DCrash

SpecDirCrash == InitDir /\ [][NextDirCrash]_vars

\* deepresearch.py started with or without a result file, the task list file
\* in any state
InitAny ==
  /\ InitMemory
  /\ file \in {AbsentFile, GivenFile(tasks_in)}
  /\ DirIdle
  /\ LoadRest
  /\ data_file \in DataFileStates

NextAny ==
  \/ NextOneRun
  \/ NextDir

\* deepresearch.py is started, or browseruse.py or owl.py
InitAnyScript == InitAny \/ InitDirAny

\* any of the three scripts, started on a task list file in any state
SpecAny == InitAnyScript /\ [][NextAny]_vars


\* ------------------------------------------------------------------------
\* browseruse.py 18-39, owl.py 78-100, deepresearch.py 210-232: the task list
\* is loaded. Strings are sequences of characters; "sup2" stands for the
\* one character SUPERSCRIPT TWO.
\* ------------------------------------------------------------------------
\* the entries a task list file holds, at most
MaxEntries == 3

\* owl.py 64-65
WORKER_ID == 1
N_WORKERS == 10

FolderNames ==
  { <<"x", "1">>, <<"x", "2">>, <<"x", "1", "0">>,
    <<"X", "1">>,            \* x1 in another case
    <<"x", "0", "1">>,       \* x1 with a leading zero
    <<"y">>,
    <<"2">>,                 \* digits only
    <<"x", "1", "sup2">> }

Go == <<"g", "o">>

\* one JSON object of the list: its "folder" and "instruct" members, if any
Entry(hf, f, hi, ins) ==
  [has_folder |-> hf, folder |-> f, has_instruct |-> hi, instruct |-> ins]

RawEntries ==
  {Entry(TRUE, n, TRUE, Go) : n \in FolderNames} \cup
  { Entry(FALSE, <<>>, TRUE, Go),          \* no "folder"
    Entry(TRUE, <<>>, TRUE, Go),           \* "folder": ""
    Entry(TRUE, <<"x", "2">>, FALSE, <<>>),    \* no "instruct"
    Entry(TRUE, <<"x", "2">>, TRUE, <<>>),     \* "instruct": ""
    Entry(TRUE, <<"x", "2">>, TRUE, <<" ">>) } \* "instruct": " "

RawLists == UNION {[1..n -> RawEntries] : n \in 0..MaxEntries}

\* \d of the re module
IsDecimal(c) == c \in {"0", "1", "2"}

\* str.isdigit of one character: the decimals and the other digit characters
IsDigit(c) == IsDecimal(c) \/ c = "sup2"

\* re.split(r'(\d+)', name): text, digits, text, ..., the text pieces may be
\* empty; acc holds the pieces so far, the last one still growing
RECURSIVE SplitRuns(_, _)
SplitRuns(s, acc) ==
  LET inText == Len(acc) % 2 = 1
      last == acc[Len(acc)]
  IN  IF s = <<>>
      THEN IF inText THEN acc ELSE Append(acc, <<>>)
      ELSE IF IsDecimal(Head(s)) = inText
           THEN SplitRuns(Tail(s), Append(acc, <<Head(s)>>))
           ELSE SplitRuns(Tail(s),
                          [acc EXCEPT ![Len(acc)] = Append(last, Head(s))])

ReSplit(name) == SplitRuns(name, << <<>> >>)

\* s.isdigit()
StrIsDigit(p) == p # <<>> /\ \A k \in DOMAIN p : IsDigit(p[k])

\* int(s) raises ValueError on a character that is no decimal
IntRaises(p) == \E k \in DOMAIN p : ~IsDecimal(p[k])

DigitValue(c) == CASE c = "0" -> 0 [] c = "1" -> 1 [] c = "2" -> 2

\* int(s)
RECURSIVE IntOf(_)
IntOf(p) ==
  IF p = <<>> THEN 0
  ELSE 10 * IntOf(SubSeq(p, 1, Len(p) - 1)) + DigitValue(p[Len(p)])

\* s.lower()
Lower(p) == [k \in DOMAIN p |-> IF p[k] = "X" THEN "x" ELSE p[k]]

\* one element of the key: int(s) if s.isdigit() else s.lower()
KeyPart(p) ==
  IF StrIsDigit(p) THEN [int |-> TRUE, n |-> IntOf(p), s |-> <<>>]
  ELSE [int |-> FALSE, n |-> 0, s |-> Lower(p)]

\* faulty variant of natural_key: the digit runs are not converted
NaturalKeyLexical(name) ==
  [k \in DOMAIN ReSplit(name) |->
     [int |-> FALSE, n |-> 0, s |-> Lower(ReSplit(name)[k])]]

\* natural_key(name)
NaturalKey(name) ==
  [k \in DOMAIN ReSplit(name) |-> KeyPart(ReSplit(name)[k])]

\* natural_key(name) raises ValueError
NaturalKeyRaises(name) ==
  \E k \in DOMAIN ReSplit(name) :
    StrIsDigit(ReSplit(name)[k]) /\ IntRaises(ReSplit(name)[k])

\* code points of the characters used
Ord(c) ==
  CASE c = " " -> 32 [] c = "0" -> 48 [] c = "1" -> 49 [] c = "2" -> 50
    [] c = "X" -> 88 [] c = "g" -> 103 [] c = "o" -> 111 [] c = "x" -> 120
    [] c = "y" -> 121 [] c = "sup2" -> 178

\* a < b of two str
RECURSIVE StrLess(_, _)
StrLess(a, b) ==
  IF a = <<>> THEN b # <<>>
  ELSE IF b = <<>> THEN FALSE
  ELSE IF Ord(Head(a)) # Ord(Head(b)) THEN Ord(Head(a)) < Ord(Head(b))
  ELSE StrLess(Tail(a), Tail(b))

\* k1 < k2 of two lists raises TypeError: the first elements that differ are
\* an int and a str
RECURSIVE KeyLessRaises(_, _)
KeyLessRaises(k1, k2) ==
  IF k1 = <<>> \/ k2 = <<>> THEN FALSE
  ELSE IF Head(k1) = Head(k2) THEN KeyLessRaises(Tail(k1), Tail(k2))
  ELSE Head(k1).int # Head(k2).int

\* k1 < k2 of two lists: decided by the first elements that differ, else by
\* the lengths
RECURSIVE KeyLess(_, _)
KeyLess(k1, k2) ==
  IF k1 = <<>> THEN k2 # <<>>
  ELSE IF k2 = <<>> THEN FALSE
  ELSE IF Head(k1) = Head(k2) THEN KeyLess(Tail(k1), Tail(k2))
  ELSE IF Head(k1).int THEN Head(k1).n < Head(k2).n
  ELSE StrLess(Head(k1).s, Head(k2).s)

\* the key function of line 31: lambda x: natural_key(x["folder"])
Key(x) == NaturalKey(x.folder)

\* What the key function raises on the first item it fails on: KeyError for
\* an item without "folder", ValueError from int(); "none" if all keys exist.
KeyFailure(raw) ==
  LET bad == {k \in DOMAIN raw :
                ~raw[k].has_folder \/ NaturalKeyRaises(raw[k].folder)}
      first == CHOOSE k \in bad : \A j \in bad : k <= j
  IN  IF bad = {} THEN "none"
      ELSE IF ~raw[first].has_folder THEN "KeyError" ELSE "ValueError"

\* two of the keys cannot be compared
CompareFailure(raw) ==
  \E i, j \in DOMAIN raw : KeyLessRaises(Key(raw[i]), Key(raw[j]))

\* x takes its place behind every item of s that is not greater
RECURSIVE Insert(_, _)
Insert(s, x) ==
  IF s = <<>> THEN <<x>>
  ELSE IF KeyLess(Key(x), Key(Head(s))) THEN <<x>> \o s
  ELSE <<Head(s)>> \o Insert(Tail(s), x)

\* sorted(raw_tasks, key=...): a stable sort
RECURSIVE Sorted(_)
Sorted(raw) ==
  IF raw = <<>> THEN <<>>
  ELSE Insert(Sorted(SubSeq(raw, 1, Len(raw) - 1)), raw[Len(raw)])

\* s.strip()
RECURSIVE Strip(_)
Strip(s) ==
  IF s = <<>> THEN s
  ELSE IF Head(s) = " " THEN Strip(Tail(s))
  ELSE IF s[Len(s)] = " " THEN Strip(SubSeq(s, 1, Len(s) - 1))
  ELSE s

\* item.get("instruct", "").strip()
InstructOf(item) == Strip(IF item.has_instruct THEN item.instruct ELSE <<>>)

\* not (not folder_name or not instruct): item.get("folder") is neither None
\* nor "", and the stripped instruct is not ""
Admitted(item) ==
  /\ item.has_folder /\ item.folder # <<>>
  /\ InstructOf(item) # <<>>

\* lines 32-39: the loop over the sorted items
Filtered(items) ==
  LET kept == SelectSeq(items, Admitted)
  IN  [k \in DOMAIN kept |->
         [folder |-> kept[k].folder, instruct |-> InstructOf(kept[k])]]

\* faulty variant of ShardOf: the worker ids are taken to count from one
ShardOfOneBased(ts, wid) ==
  LET idx == SelectSeq([k \in DOMAIN ts |-> k],
                       LAMBDA k : (k - 1) % N_WORKERS = wid + 1)
  IN  [k \in DOMAIN idx |-> ts[idx[k]]]

\* owl.py 100: [t for i, t in enumerate(tasks) if i % N_WORKERS == WORKER_ID]
\* in a process whose WORKER_ID is wid
ShardOf(ts, wid) ==
  LET idx == SelectSeq([k \in DOMAIN ts |-> k],
                       LAMBDA k : (k - 1) % N_WORKERS = wid)
  IN  [k \in DOMAIN idx |-> ts[idx[k]]]

\* owl.py 100 with the WORKER_ID of line 64
Shard(ts) == ShardOf(ts, WORKER_ID)

\* f"task_{i}"
TaskIndexId(i) == <<"t", "_", <<"0", "1", "2", "3", "4", "5">>[i + 1]>>

\* str(prompt_data)
StrOfDict == <<"{", "}">>

\* deepresearch.py 215-232: one task per entry, with defaults for what the
\* entry lacks
CreateTasksFromPrompts(prompts) ==
  [k \in DOMAIN prompts |->
     [folder |-> IF prompts[k].has_folder THEN prompts[k].folder
                 ELSE TaskIndexId(k - 1),
      instruct |-> IF prompts[k].has_instruct THEN prompts[k].instruct
                   ELSE StrOfDict]]

\* a script is started on a task list file; nothing else runs
InitLoad ==
  /\ DRIdle
  /\ DirIdle
  /\ l_driver \in {"browseruse", "owl", "deepresearch"}
  /\ \/ data_file = "ok" /\ raw_tasks \in RawLists
     \/ data_file \in {"missing", "unparseable"} /\ raw_tasks = <<>>
  /\ l_pc = "start"
  /\ l_sorted = <<>>
  /\ l_tasks = <<>>
  /\ shards = <<>>

\* browseruse.py 24-28, owl.py 84-88: open and json.load, RuntimeError on
\* failure; deepresearch.py 258, 210-213, 326-328: load_prompts, the exception
\* is raised again
LoadRead ==
  /\ l_pc = "start"
  /\ l_pc' = IF Readable(data_file) THEN "read"
             ELSE IF l_driver = "deepresearch" THEN "raised"
             ELSE "RuntimeError"
  /\ UNCHANGED <<data_file, l_driver, raw_tasks, l_sorted, l_tasks,
                 shards, drVars, dirVars>>

\* browseruse.py 31, owl.py 90: sorted(...), which raises what the key
\* function or a comparison raises
LoadSort ==
  /\ l_pc = "read"
  /\ l_driver \in {"browseruse", "owl"}
  /\ IF KeyFailure(raw_tasks) # "none"
     THEN l_pc' = KeyFailure(raw_tasks) /\ l_sorted' = l_sorted
     ELSE IF CompareFailure(raw_tasks)
     THEN l_pc' = "TypeError" /\ l_sorted' = l_sorted
     ELSE l_pc' = "sorted" /\ l_sorted' = Sorted(raw_tasks)
  /\ UNCHANGED <<data_file, l_driver, raw_tasks, l_tasks, shards, drVars,
                 dirVars>>

\* browseruse.py 31-39, owl.py 90-98: the loop appends the admitted items
LoadFilter ==
  /\ l_pc = "sorted"
  /\ l_tasks' = Filtered(l_sorted)
  /\ l_pc' = IF l_driver = "owl" THEN "filtered" ELSE "loaded"
  /\ UNCHANGED <<data_file, l_driver, raw_tasks, l_sorted, shards, drVars,
                 dirVars>>

\* owl.py 100: this worker's share of the queue
LoadShard ==
  /\ l_pc = "filtered"
  /\ l_tasks' = Shard(l_tasks)
  /\ l_pc' = "loaded"
  /\ UNCHANGED <<data_file, l_driver, raw_tasks, l_sorted, shards, drVars,
                 dirVars>>

\* deepresearch.py 259: create_tasks_from_prompts
LoadCreate ==
  /\ l_pc = "read"
  /\ l_driver = "deepresearch"
  /\ l_tasks' = CreateTasksFromPrompts(raw_tasks)
  /\ l_pc' = "loaded"
  /\ UNCHANGED <<data_file, l_driver, raw_tasks, l_sorted, shards, drVars,
                 dirVars>>

NextLoad ==
  \/ LoadRead
  \/ LoadSort
  \/ LoadFilter
  \/ LoadShard
  \/ LoadCreate

SpecLoad == InitLoad /\ [][NextLoad]_vars

\* ------------------------------------------------------------------------
\* owl.py: one task list shared out among N_WORKERS processes
\* ------------------------------------------------------------------------
MaxShardLen == 12

\* the worker ids the processes are given
WorkerIds == 0..(N_WORKERS - 1)

\* the k-th number written with the digits 0, 1, 2
RECURSIVE Numeral(_)
Numeral(k) ==
  IF k < 3 THEN << <<"0", "1", "2">>[k + 1] >>
  ELSE Append(Numeral(k \div 3), <<"0", "1", "2">>[(k % 3) + 1])

\* a task list file of n entries x1, x2, x10, ... written last to first; the
\* entry at position blank, if any, has a blank instruct
ShardFile(n, blank) ==
  [k \in 1..n |->
     Entry(TRUE, <<"x">> \o Numeral(n + 1 - k), TRUE,
           IF k = blank THEN <<" ">> ELSE Go)]

ShardFiles == {ShardFile(n, b) : n \in 0..MaxShardLen, b \in 0..MaxShardLen}

\* no process has run
NotRun == [w \in WorkerIds |-> [ran |-> FALSE, ts |-> <<>>]]

\* every process will read the same file: it is loaded, sorted and filtered
\* (lines 84-98) the same way in each
InitShard ==
  /\ DRIdle
  /\ DirIdle
  /\ data_file = "ok"
  /\ l_driver = "owl"
  /\ raw_tasks \in ShardFiles
  /\ l_pc = "filtered"
  /\ l_sorted = Sorted(raw_tasks)
  /\ l_tasks = Filtered(l_sorted)
  /\ shards = NotRun

\* owl.py 100 in the process started with WORKER_ID = wid
OwlShard(wid) ==
  /\ l_pc = "filtered"
  /\ ~shards[wid].ran
  /\ shards' = [shards EXCEPT ![wid] = [ran |-> TRUE, ts |-> ShardOf(l_tasks, wid)]]
  /\ UNCHANGED <<data_file, l_driver, raw_tasks, l_pc, l_sorted, l_tasks,
                 drVars, dirVars>>

NextShard == \E wid \in WorkerIds : OwlShard(wid)

SpecShard == InitShard /\ [][NextShard]_vars

\* ========================================================================
\* Properties
\* ========================================================================
\* the main thread is past process_tasks
AfterPool == pc \in {"merge", "save_open", "save_write", "stats", "done", "raised"}

\* a record with this id and status completed is in result file f
HasCompletedRecord(f, id) ==
  /\ f.state = "ok"
  /\ \E k \in DOMAIN f.recs : f.recs[k].id = id /\ f.recs[k].status = "completed"

HasFailedRecord(f, id) ==
  /\ f.state = "ok"
  /\ \E k \in DOMAIN f.recs : f.recs[k].id = id /\ f.recs[k].status = "failed"

\* C1 (as claimed): when a run of the deep-research pipeline has saved, every
\* record that was in the result file with status completed when the run
\* started is still in the file, unchanged.
C1_CompletedRecordsKept ==
  (run >= 1 /\ pc \in {"stats", "done", "raised"}) =>
    \A k \in DOMAIN startFile.recs :
      startFile.recs[k].status = "completed" =>
        \E j \in DOMAIN file.recs : file.recs[j] = startFile.recs[k]

\* C2: a run executes a task if and only if the result file read at startup
\* holds no completed record of the task's id: no task with such a record is
\* ever executed, and once process_tasks is over (or was not needed) every
\* other task, with a failed record or with none, has been executed.
C2_ExecutesIffNotCompleted ==
  /\ \A i \in Executed : ~HasCompletedRecord(startFile, tasks_in[i])
  /\ (run >= 1 /\ AfterPool) =>
       \A i \in DOMAIN tasks_in :
         i \in Executed <=> ~HasCompletedRecord(startFile, tasks_in[i])

\* C2 witness: a second run is over in which a task with a completed record
\* was skipped, and a task with a failed record was executed.
C2_Witness ==
  /\ run = 2 /\ AfterPool
  /\ \E i, j \in DOMAIN tasks_in :
       /\ HasCompletedRecord(startFile, tasks_in[i]) /\ i \notin Executed
       /\ HasFailedRecord(startFile, tasks_in[j]) /\ j \in Executed

\* C3: in the sequential drivers the agent is invoked for a task if and only if
\* the task's output directory was missing when the loop reached the task; a
\* skip does not end the loop, so a run that ends normally has reached every
\* task of the queue.
C3_InvokedIffDirMissing ==
  \A i \in DOMAIN d_tasks :
    /\ i \in d_invoked => d_reach[i] = "absent"
    /\ (d_reach[i] = "absent" /\ (d_i > i \/ d_pc \in {"running", "raised"}))
         => i \in d_invoked
    /\ d_reach[i] = "present" => i \notin d_invoked
    /\ d_pc = "done" => d_reach[i] # "unreached"
    /\ (d_pc = "loop" /\ i < d_i) => d_reach[i] # "unreached"

\* C3 witness: a run over a queue of two or more tasks has ended; the first
\* task's directory was present and the task skipped, a later one was run.
C3_Witness ==
  /\ d_pc = "done"
  /\ Len(d_tasks) >= 2
  /\ d_reach[1] = "present" /\ 1 \notin d_invoked
  /\ \E j \in DOMAIN d_tasks : j > 1 /\ j \in d_invoked

\* C4 (as claimed): in an invocation that follows an interrupted one, no task
\* is executed whose execution had completed before the interruption.
C4_NoReexecutionAfterInterrupt ==
  interrupted => \A i \in Executed : tasks_in[i] \notin prevCompleted

\* C5 (as claimed): a run that has ended, normally or by an agent call that
\* raised, has gone through every task of its queue.
C5_FailureConfined ==
  d_pc \in {"done", "raised"} =>
    \A i \in DOMAIN d_tasks : d_reach[i] # "unreached"

\* C6: when process_tasks has returned, its list holds one entry for every
\* submitted task, none of them None: for every id, as many entries as
\* submitted tasks carry it, and the "if task" filter drops none.
C6_OneRecordPerTask ==
  (run >= 1 /\ AfterPool) =>
    /\ Len(results) = Len(pending_tasks)
    /\ \A k \in DOMAIN results : results[k] # 0
    /\ \A i \in Range(pending_tasks) :
         Cardinality({k \in DOMAIN results : results[k] # 0
                        /\ task[results[k]].id = tasks_in[i]})
           = Cardinality({k \in DOMAIN pending_tasks :
                            tasks_in[pending_tasks[k]] = tasks_in[i]})
    /\ Len(NewDicts(results)) = Len(pending_tasks)

\* C6 witness: process_tasks has returned two entries, one for a task that
\* failed after all its attempts and one for a task that succeeded.
C6_Witness ==
  /\ pc = "merge"
  /\ Len(results) = 2
  /\ \E k, l \in DOMAIN results :
       /\ results[k] # 0 /\ results[l] # 0
       /\ task[results[k]].status = "failed"
       /\ task[results[l]].status = "completed"

\* the tasks being executed: in status processing, or waiting between two
\* attempts of an execution that has not ended
InExecution ==
  {i \in DOMAIN task :
     \/ task[i].status = "processing"
     \/ \E w \in Workers : worker[w].cur = i /\ worker[w].phase = "backoff"}

\* C7: at no moment are more than max_concurrent tasks in execution (in
\* status processing, or between two attempts).
C7_ConcurrencyBound == Cardinality(InExecution) <= max_concurrent

\* C7 witness: the pool is full, one task waits between two attempts and
\* another task is still queued.
C7_Witness ==
  /\ Cardinality(InExecution) = max_concurrent
  /\ queue # <<>>
  /\ \E w \in Workers : worker[w].phase = "backoff"

\* C8 (as claimed): an execution that ended after every attempt raised has
\* made exactly max_retries attempts, and its task has status failed.
C8_AttemptsEqualMaxRetries ==
  \A i \in DOMAIN future :
    future[i] = "raised" =>
      attempt_number[i] = max_retries /\ task[i].status = "failed"

\* C9 (as claimed): retry_count is the number of attempts of the task that
\* have raised, between two attempts and when the execution has ended failed.
C9_RetryCountCountsFailures ==
  \A i \in DOMAIN future :
    (future[i] = "raised"
       \/ \E w \in Workers : worker[w].cur = i /\ worker[w].phase = "backoff")
      => task[i].retry_count = attempt_number[i]

\* C10 (as claimed): a completed task record has a result and no error, and a
\* failed one has an error.
C10_StatusFields ==
  \A i \in DOMAIN task :
    /\ task[i].status = "completed" =>
         task[i].result # NoneV /\ task[i].error = NoneV
    /\ task[i].status = "failed" => task[i].error # NoneV

\* C11 (as claimed): a task record has an end_time if and only if its status
\* is completed or failed; a pending or processing record, also one that is
\* processing a retry attempt, has none.
C11_EndTimeIffTerminal ==
  \A i \in DOMAIN task :
    task[i].end_time # NoneV <=> task[i].status \in {"completed", "failed"}

\* C12 (as claimed): within one run a status that is completed or failed never
\* changes again.
C12_TerminalStatusStays ==
  [][\A i \in DOMAIN task :
       task[i].status \in {"completed", "failed"} =>
         task'[i].status = task[i].status]_vars

\* the ids of a task list are pairwise distinct
DistinctIds(ids) == \A i, j \in DOMAIN ids : i # j => ids[i] # ids[j]

\* result file f holds a record with this id
HasRecord(f, id) == f.state = "ok" /\ \E k \in DOMAIN f.recs : f.recs[k].id = id

\* the records of this id in result file f, by position
RecordsOf(f, id) == {k \in DOMAIN f.recs : f.recs[k].id = id}

\* the file has been written by a run that processed tasks
MergedAndSaved == run >= 1 /\ pc = "stats" /\ pending_tasks # <<>>

\* the record in the written file at position k is the one of task i
IsRecordOf(k, i) ==
  /\ file.recs[k].id = task[i].id
  /\ file.recs[k].status = task[i].status
  /\ file.recs[k].result = task[i].result
  /\ file.recs[k].error = task[i].error

\* C13 (as claimed): after the merge every id that is in the previous file
\* and among the processed tasks has exactly one record in the output, the
\* new one.
C13_Original ==
  MergedAndSaved =>
    \A i \in Range(pending_tasks) :
      HasRecord(startFile, tasks_in[i]) =>
        /\ Cardinality(RecordsOf(file, tasks_in[i])) = 1
        /\ \A k \in RecordsOf(file, tasks_in[i]) : IsRecordOf(k, i)

\* C13 (amended): for a task list with pairwise distinct ids, after the merge
\* every id that is in the previous file and among the processed tasks has
\* exactly one record in the output, the new one.
C13_ReplacedByNew ==
  (MergedAndSaved /\ DistinctIds(tasks_in)) =>
    \A i \in Range(pending_tasks) :
      HasRecord(startFile, tasks_in[i]) =>
        /\ Cardinality(RecordsOf(file, tasks_in[i])) = 1
        /\ \A k \in RecordsOf(file, tasks_in[i]) : IsRecordOf(k, i)

\* C13 witness: a task with a failed record in the previous file has been
\* processed again, completed, and the file has been written.
C13_Witness ==
  /\ MergedAndSaved /\ DistinctIds(tasks_in)
  /\ \E i \in Range(pending_tasks) :
       /\ HasFailedRecord(startFile, tasks_in[i])
       /\ task[i].status = "completed"

\* C14 (as claimed, for distinct ids): the merged file lists the previous
\* records in their order, each replaced record standing at the position its
\* predecessor had.
C14_Original ==
  (MergedAndSaved /\ DistinctIds(tasks_in) /\ startFile.state = "ok") =>
    \A k \in DOMAIN startFile.recs :
      k \in DOMAIN file.recs /\ file.recs[k].id = startFile.recs[k].id

\* C14 (amended): the merged file lists the previous records whose id is not
\* the id of a processed task, unchanged and in their original relative
\* order, followed by one record per processed task in the order in which
\* the results were collected; a replaced record moves to that tail.
C14_KeptThenNew ==
  MergedAndSaved =>
    LET kept == SelectSeq(startFile.recs, LAMBDA r :
                  \A i \in Range(pending_tasks) : r.id # tasks_in[i])
    IN /\ Len(file.recs) = Len(kept) + Len(results)
       /\ \A k \in DOMAIN kept : file.recs[k] = kept[k]
       /\ \A k \in DOMAIN results : IsRecordOf(Len(kept) + k, results[k])

\* C14 witness: the previous file had the record of a processed task first and
\* a record of a task not processed second; the written file has them the
\* other way round.
C14_Witness ==
  /\ MergedAndSaved /\ DistinctIds(tasks_in)
  /\ Len(startFile.recs) = 2 /\ Len(file.recs) = 2
  /\ \E i \in Range(pending_tasks) : startFile.recs[1].id = tasks_in[i]
  /\ \A i \in Range(pending_tasks) : startFile.recs[2].id # tasks_in[i]
  /\ file.recs[1] = startFile.recs[2]
  /\ file.recs[2].id = startFile.recs[1].id

RecordFields ==
  {"id", "prompt", "status", "result", "error", "start_time", "end_time",
   "duration", "retry_count"}

\* C20 (as claimed): every record written to the final result file carries
\* all of id, prompt, status, result, error, start_time, end_time, duration
\* and retry_count, with retry_count equal to the task record's value.
C20_AllFieldsWritten ==
  file.state = "ok" =>
    \A k \in DOMAIN file.recs :
      /\ RecordFields \subseteq DOMAIN file.recs[k]
      /\ \A i \in DOMAIN task :
           task[i].id = file.recs[k].id =>
             file.recs[k].retry_count = task[i].retry_count

\* nothing has been executed in a script started on an unreadable task list:
\* deepresearch.py has at most raised, browseruse.py / owl.py at most aborted
\* at import, no worker is busy, no task has left pending, no agent was
\* started
NothingExecuted ==
  /\ pc \in {"idle", "init", "raised"}
  /\ d_pc \in {"idle", "init", "aborted"}
  /\ \A w \in Workers : worker[w] = IdleWorker
  /\ \A i \in DOMAIN task : task[i].status = "pending"
  /\ results = <<>>
  /\ d_invoked = {}

\* C19: when the task list file is missing or cannot be parsed, the run
\* aborts with an error before any task is executed, and no step of it
\* creates or changes an output directory or the result file.
C19_AbortBeforeAnything ==
  /\ [](data_file # "ok" => NothingExecuted)
  /\ [][data_file # "ok" => (file' = file /\ dirs' = dirs)]_vars

\* C19 witness: a script started on a missing or unparseable task list has
\* ended: deepresearch.py raised with the result file of earlier work in
\* place, or browseruse.py / owl.py aborted at import.
C19_Witness ==
  /\ data_file # "ok"
  /\ \/ run = 1 /\ pc = "raised" /\ file = GivenFile(tasks_in)
     \/ d_run = 1 /\ d_pc = "aborted" /\ d_tasks # <<>>

\* The place of a folder name in natural order, written out for FolderNames
\* and the empty name: the empty name, then "2", then x1 with X1 and x01 (one
\* key: text x, number 1), then x2, then x10, then y.
ExpectedRank(name) ==
  CASE name = <<>> -> 0
    [] name = <<"2">> -> 1
    [] name \in {<<"x", "1">>, <<"X", "1">>, <<"x", "0", "1">>} -> 2
    [] name = <<"x", "2">> -> 3
    [] name = <<"x", "1", "0">> -> 4
    [] name = <<"y">> -> 5

\* browseruse.py or owl.py has built its queue (owl.py: before the shard is
\* taken, or after)
QueueBuilt ==
  /\ l_driver \in {"browseruse", "owl"}
  /\ l_pc \in {"filtered", "loaded"}

\* C16: in browseruse.py and owl.py the task queue is in natural-key order of
\* the ids: digit runs by number, text runs without regard to case, so x1
\* comes before x2 and x2 before x10.
C16_NaturalKeyOrder ==
  QueueBuilt =>
    \A i, j \in DOMAIN l_tasks :
      i < j => ExpectedRank(l_tasks[i].folder) <= ExpectedRank(l_tasks[j].folder)

\* C16 witness: the list x2, x10, x1 has been loaded by browseruse.py and the
\* queue is x1, x2, x10.
C16_Witness ==
  /\ l_driver = "browseruse" /\ l_pc = "loaded"
  /\ [k \in DOMAIN raw_tasks |-> raw_tasks[k].folder]
       = << <<"x", "2">>, <<"x", "1", "0">>, <<"x", "1">> >>
  /\ [k \in DOMAIN l_tasks |-> l_tasks[k].folder]
       = << <<"x", "1">>, <<"x", "2">>, <<"x", "1", "0">> >>

\* sorted(...) of browseruse.py or owl.py has returned or raised
SortDone ==
  /\ l_driver \in {"browseruse", "owl"}
  /\ data_file = "ok"
  /\ l_pc \notin {"start", "read"}

\* C17 (as claimed): sorting is total for every list of ids, the comparison
\* of two natural keys never fails, and tasks with equal natural keys keep
\* their original relative order.
C17_SortTotalStable ==
  (SortDone /\ \A k \in DOMAIN raw_tasks : raw_tasks[k].has_folder) =>
    /\ l_pc \in {"sorted", "filtered", "loaded"}
    /\ \A i, j \in DOMAIN raw_tasks :
         (/\ i < j
          /\ raw_tasks[i] # raw_tasks[j]
          /\ ExpectedRank(raw_tasks[i].folder) = ExpectedRank(raw_tasks[j].folder))
         => \E a, b \in DOMAIN l_sorted :
              a < b /\ l_sorted[a] = raw_tasks[i] /\ l_sorted[b] = raw_tasks[j]

\* an entry with an id and a prompt that is not empty or blank
ValidEntry(e) ==
  /\ e.has_folder /\ e.folder # <<>>
  /\ e.has_instruct /\ \E k \in DOMAIN e.instruct : e.instruct[k] # " "

\* the load of browseruse.py or deepresearch.py has ended, on a list whose ids
\* all have a natural key
LoadEnded ==
  /\ l_driver \in {"browseruse", "deepresearch"}
  /\ data_file = "ok"
  /\ l_pc \notin {"start", "read", "sorted"}
  /\ \A k \in DOMAIN raw_tasks : raw_tasks[k].folder # <<"x", "1", "sup2">>

\* C18 (as claimed): an entry without id, or whose prompt is missing, empty
\* or blank, is left out of the queue and loading continues: no error aborts
\* the load and every valid entry of the file is admitted.
C18_MalformedDropped ==
  LoadEnded =>
    /\ l_pc = "loaded"
    /\ Len(l_tasks) = Cardinality({k \in DOMAIN raw_tasks : ValidEntry(raw_tasks[k])})
    /\ \A k \in DOMAIN raw_tasks :
         ValidEntry(raw_tasks[k]) =>
           \E j \in DOMAIN l_tasks : l_tasks[j].folder = raw_tasks[k].folder

\* C21 (as claimed): a run in which at least one task was processed ends
\* normally after saving: the summary is reported and main returns without
\* raising.
C21_EndsNormally ==
  (run >= 1 /\ data_file = "ok" /\ pending_tasks # <<>> /\ file = [state |-> "ok", recs |-> OutputData(merged)])
    => pc # "raised"

\* a run that processed tasks has written the result file
RunSaved ==
  /\ run >= 1 /\ pending_tasks # <<>>
  /\ pc \in {"stats", "raised", "done"}
  /\ file.state = "ok"

\* C22: every task whose execution ended failed in a run is in the result
\* file that run writes, with status failed and an error text that is not
\* null and gives the kind and the message of the exception its final attempt
\* raised.
C22_FailedRecorded ==
  RunSaved =>
    \A i \in Range(pending_tasks) :
      task[i].status = "failed" =>
        /\ last_exc[i] \in {PlainError, TimeoutError}
        /\ \E k \in DOMAIN file.recs :
             /\ file.recs[k].id = task[i].id
             /\ file.recs[k].status = "failed"
             /\ file.recs[k].error # NoneV
             /\ last_exc[i] = PlainError =>
                  file.recs[k].error = "Exception: msg"
             /\ last_exc[i] = TimeoutError =>
                  file.recs[k].error = "APITimeoutError: late"

\* C22 witness: a task whose attempts failed in both ways, the last one by a
\* timeout, is in the written file as failed with the timeout's text.
C22_Witness ==
  /\ RunSaved
  /\ \E i \in Range(pending_tasks) :
       /\ task[i].status = "failed"
       /\ last_exc[i] = TimeoutError
       /\ \E k \in DOMAIN file.recs :
            /\ file.recs[k].id = task[i].id
            /\ file.recs[k].error = "APITimeoutError: late"

\* C23: starting from no result file, with a task list whose ids are pairwise
\* distinct, after any sequence of runs the result file never holds two
\* records with the same id.
C23_UniqueIds ==
  DistinctIds(tasks_in) =>
    \A k, l \in DOMAIN file.recs :
      k # l => file.recs[k].id # file.recs[l].id

\* C23 witness: a second run has merged the new record of a task into a file
\* that already held a record of it and records of other tasks.
C23_Witness ==
  /\ DistinctIds(tasks_in)
  /\ run = 2 /\ pc = "stats"
  /\ Len(file.recs) = 2
  /\ \E i \in Range(pending_tasks) : HasRecord(startFile, tasks_in[i])
  /\ \E j \in DOMAIN tasks_in : j \notin Range(pending_tasks)

\* the agent has been started at most once for every task, and only with the
\* task's output directory in place; it is in place when the agent is about
\* to be started
StartedOnceInDir ==
  /\ \A i \in DOMAIN d_tasks :
       /\ d_starts[i] <= 1
       /\ (d_starts[i] = 1 \/ i \in d_invoked) => SaveDir(d_tasks[i]) \in dirs
  /\ d_pc \in {"agent", "running"} => SaveDir(d_tasks[d_i]) \in dirs

\* no directory is removed, and a task whose output directory exists is not
\* started, unless this run has just made the directory for it
DirsKeptAndDone ==
  /\ dirs \subseteq dirs'
  /\ \A i \in DOMAIN d_tasks :
       (SaveDir(d_tasks[i]) \in dirs /\ ~(d_pc = "agent" /\ d_i = i))
         => d_starts'[i] = d_starts[i]

\* C24: the output directory is made before the agent is started and never
\* removed, so a task whose run was interrupted after the directory was made
\* counts as done: no later run executes it, and over any sequence of runs
\* the agent is started at most once per task.
C24_StartedAtMostOnce ==
  []StartedOnceInDir /\ [][DirsKeptAndDone]_vars

\* C24 witness: a second run has ended; it skipped a task whose agent an
\* earlier run had started, and started the agent of a later task the earlier
\* run had not come to.
C24_Witness ==
  /\ d_run = 2 /\ d_pc = "done"
  /\ \E i, j \in DOMAIN d_tasks :
       /\ i < j
       /\ d_starts[i] = 1 /\ i \notin d_invoked /\ d_reach[i] = "present"
       /\ j \in d_invoked

\* the place of an id in sorted order
IdRank(id) == CHOOSE k \in DOMAIN AllIds : AllIds[k] = id

\* C25 (as claimed, for the thread-pool driver): tasks are submitted in the
\* sorted order of their ids: no task is submitted while a pending task that
\* precedes it in sorted order is not.
C25_SubmittedInSortedOrder ==
  \A i, j \in Range(pending_tasks) :
    (future[i] # "none" /\ future[j] = "none")
      => IdRank(tasks_in[i]) <= IdRank(tasks_in[j])

\* C26 (as claimed): when the result file cannot be parsed at startup, the
\* run takes every task for pending and, having processed them, writes the
\* records of the processed tasks to the result file.
C26_UnreadableFileRecovered ==
  (run >= 1 /\ startFile.state = "corrupt" /\ pc \in {"done", "raised"}) =>
    /\ file.state = "ok"
    /\ \A i \in DOMAIN tasks_in : HasRecord(file, tasks_in[i])

\* the submitted tasks whose record has this status
WithStatus(st) == {i \in Range(pending_tasks) : task[i].status = st}

\* C27 (as claimed): completed_count is the number of submitted tasks that
\* have reached completed, failed_count is not more than the number that are
\* failed, and completed_count + failed_count never exceeds total_count, also
\* when attempts fail before a task succeeds or gives up.
C27_CountersCountTasks ==
  (run >= 1 /\ data_file = "ok") =>
    /\ completed_count = Cardinality(WithStatus("completed"))
    /\ failed_count <= Cardinality(WithStatus("failed"))
    /\ completed_count + failed_count <= total_count

\* C28 (as claimed): no update of the shared counters is lost: when
\* process_tasks has returned, completed_count is the number of successful
\* attempts (one per completed task), and failed_count the number of failed
\* attempts (StopAttempts per task, when every task gave up).
C28_NoLostUpdate ==
  (run >= 1 /\ data_file = "ok" /\ AfterPool) =>
    /\ completed_count = Cardinality(WithStatus("completed"))
    /\ WithStatus("failed") = Range(pending_tasks)
         => failed_count = StopAttempts * Len(pending_tasks)

\* every task in execution is on exactly one worker, and an idle worker
\* holds no task
OneWorkerPerTask ==
  /\ \A i \in DOMAIN future :
       future[i] = "running" =>
         Cardinality({w \in Workers : worker[w].cur = i}) = 1
  /\ \A w \in Workers :
       worker[w].cur # 0 => future[worker[w].cur] = "running"

\* a worker that holds a task keeps it, through attempts and waits, until
\* the task's execution has ended
KeepsTaskToEnd ==
  \A w \in Workers :
    worker[w].cur # 0 =>
      \/ worker'[w].cur = worker[w].cur
      \/ /\ worker'[w] = IdleWorker
         /\ future'[worker[w].cur] \in {"returned", "raised"}

\* C29: each worker runs one task's execution, with all its retry attempts
\* and backoff waits, to its end before it takes the next queued task: all
\* attempts of a task run on one worker, which starts no other task between
\* two of them.
C29_WorkerRunsTaskToEnd ==
  []OneWorkerPerTask /\ [][KeepsTaskToEnd]_vars

\* C29 witness: a worker waits between two attempts of its task while
\* another task is queued.
C29_Witness ==
  /\ queue # <<>>
  /\ \E w \in Workers :
       /\ worker[w].phase = "backoff"
       /\ attempt_number[worker[w].cur] >= 2

\* no pool thread holds a task and no work item is queued
NoTaskExecuting ==
  /\ queue = <<>>
  /\ \A w \in Workers : worker[w] = IdleWorker
  /\ \A i \in DOMAIN future : future[i] # "running"

\* the main thread is inside save_final_results
MainSaves == pc \in {"save_open", "save_write"}

\* a step that changes the result file is a step of the main thread inside
\* save_final_results, and it moves no pool thread
FileWrittenByMain ==
  file' # file => (MainSaves /\ pc' # pc /\ worker' = worker)

\* C30: the result file is written only by the coordinating thread and only
\* after every worker has finished: no write happens while a task is still
\* executing, and no worker writes the file.
C30_FileWrittenAfterWorkers ==
  [](MainSaves => NoTaskExecuting) /\ [][FileWrittenByMain]_vars

\* C30 witness: a run with two pool threads has collected two tasks and its
\* main thread has just written them to the file.
C30_Witness ==
  /\ pc = "stats"
  /\ max_concurrent = 2
  /\ Len(results) = 2
  /\ file = [state |-> "ok", recs |-> OutputData(merged)]

\* process_tasks has returned: every future has been collected, the pool has
\* no queued work and no busy thread, and every task it was given is
\* completed or failed
ProcessTasksReturned ==
  /\ pc = "merge"
  /\ Len(results) = Len(pending_tasks)
  /\ queue = <<>>
  /\ \A w \in Workers : worker[w] = IdleWorker
  /\ \A i \in Range(pending_tasks) : task[i].status \in {"completed", "failed"}

\* no task is attempted more often than the stop condition allows
AttemptsBounded ==
  \A i \in DOMAIN attempt_number : attempt_number[i] <= StopAttempts

\* C31: when every remote call returns or raises, process_tasks terminates:
\* no task gets more than StopAttempts attempts, and a call of process_tasks leads to
\* its return with every task completed or failed and the pool drained.
C31_ProcessTasksTerminates ==
  []AttemptsBounded /\ ((pc = "submit") ~> ProcessTasksReturned)

\* C31 witness: process_tasks has returned after one task used up its
\* StopAttempts attempts and another completed.
C31_Witness ==
  /\ ProcessTasksReturned
  /\ \E i \in Range(pending_tasks) :
       task[i].status = "failed" /\ attempt_number[i] = StopAttempts
  /\ \E i \in Range(pending_tasks) : task[i].status = "completed"

\* the statuses of an execution that has ended
EndStatuses == {"completed", "failed"}

\* C32: every record process_tasks has returned has status completed or
\* failed, and so has every record of the result file a run has written.
C32_NoUnfinishedRecord ==
  /\ (run >= 1 /\ AfterPool) =>
       \A k \in DOMAIN results :
         results[k] # 0 => task[results[k]].status \in EndStatuses
  /\ \A k \in DOMAIN file.recs : file.recs[k].status \in EndStatuses

\* C32 witness: a second run has written a file that holds a record kept
\* from the first run and the record of a task it executed again, one of
\* them failed and one completed.
C32_Witness ==
  /\ run = 2 /\ pc = "stats"
  /\ \E j \in DOMAIN tasks_in : j \notin Range(pending_tasks)
  /\ \E k, l \in DOMAIN file.recs :
       file.recs[k].status = "failed" /\ file.recs[l].status = "completed"

\* the worker ids whose shard holds the task with this folder name
HoldersOf(folder) ==
  {w \in WorkerIds :
     \E j \in DOMAIN shards[w].ts : shards[w].ts[j].folder = folder}

\* C33: the shards of the worker ids 0 .. N_WORKERS-1 are pairwise disjoint,
\* hold only valid tasks of the sorted list, and once every process has taken
\* its shard every valid task of the sorted list is in exactly one of them.
C33_ShardsPartition ==
  l_driver = "owl" =>
    /\ \A k \in DOMAIN l_sorted : Cardinality(HoldersOf(l_sorted[k].folder)) <= 1
    /\ \A w \in DOMAIN shards : \A j \in DOMAIN shards[w].ts :
         \E k \in DOMAIN l_sorted :
           ValidEntry(l_sorted[k]) /\ l_sorted[k].folder = shards[w].ts[j].folder
    /\ (\A w \in DOMAIN shards : shards[w].ran) =>
         \A k \in DOMAIN l_sorted :
           ValidEntry(l_sorted[k]) =>
             Cardinality(HoldersOf(l_sorted[k].folder)) = 1

\* C33 witness: all ten processes have taken their shard of a list of more
\* than ten valid tasks, so that worker 0 holds the first and the eleventh.
C33_Witness ==
  /\ l_driver = "owl"
  /\ \A w \in DOMAIN shards : shards[w].ran
  /\ Len(l_tasks) > N_WORKERS
  /\ Len(l_sorted) > Len(l_tasks)
  /\ Len(shards[0].ts) = 2
  /\ shards[0].ts[1] = l_tasks[1]
  /\ shards[0].ts[2] = l_tasks[N_WORKERS + 1]

\* the waits of the claim, by the number of the failed attempt before them
ClaimedWaits == <<1, 2, 4, 8, 15, 15, 15, 15, 15>>

\* C34: the wait between failed attempt k and attempt k+1 is 2^(k-1) seconds
\* clamped to 1..15: 1 after the first failed attempt, doubled after each
\* further one, never below 1 and never above 15.
C34_BackoffWait ==
  \A w \in Workers :
    worker[w].phase = "backoff" =>
      LET k == attempt_number[worker[w].cur] IN
        /\ k \in DOMAIN ClaimedWaits
        /\ worker[w].wait = ClaimedWaits[k]
        /\ worker[w].wait >= 1 /\ worker[w].wait <= 15

\* C34 witness: a worker waits the capped 15 seconds after the ninth failed
\* attempt of its task.
C34_Witness ==
  \E w \in Workers :
    /\ worker[w].phase = "backoff"
    /\ attempt_number[worker[w].cur] = 9
    /\ worker[w].wait = 15

\* C35 (as claimed): starting from an empty result root, a task whose output
\* directory is found present when the loop reaches it is a task the agent
\* was started for before: no task is skipped because of the directories
\* made for another task.
C35_DirectoryExclusive ==
  \A i \in DOMAIN d_tasks : d_reach[i] = "present" => d_starts[i] >= 1

====
